---- MODULE Spec2Model ----
(***************************************************************************)
(* Mode-selection feedback engines of Lattice-Framework-Solutions:         *)
(*   FeedbackLayerDemo   (src/feedback_layer_demo/feedback_layer_demo.py)  *)
(*   ArchetypeTunerDemo  (src/sentinel_os/sentinel_guard_demo.py)          *)
(*                                                                         *)
(* Numbers.  The code works on floats; the model works on exact decimals   *)
(* held as integers:                                                       *)
(*   association weights, learning_rate, clamp_min, clamp_max, seed values *)
(*       in thousandths   (0.2 is 200, 1.0 is 1000, 5.0 is 5000);          *)
(*   turn weights and rewards in tenths (1.0 is 10, 0.5 is 5, -0.5 is -5). *)
(* learning_rate is a multiple of 0.1, so learning_rate * reward * weight  *)
(* is a whole number of thousandths and no rounding takes place.           *)
(* A score is a sum of products weight * turn weight, in ten-thousandths.  *)
(***************************************************************************)
EXTENDS Integers, Sequences, FiniteSets, TLC

VARIABLES
    engine,         \* which class the behaviour's engine object is: "FL" or "AT"
    learning_rate,  \* field learning_rate of the engine
    clamp_min,      \* field clamp_min of the engine
    clamp_max,      \* field clamp_max of the engine
    flBeta,         \* FeedbackLayerDemo.beta : mode -> (invariant -> weight)
    atBeta,         \* ArchetypeTunerDemo.beta : (mode, token) -> weight
    phase,          \* "seed" until the first operation is called, then "run"
    seeded,         \* 1 once the seed loop has run, else 0
    steps,          \* number of operations called so far
    streak,         \* number of consecutive identical apply_feedback calls
    last,           \* the last call: its name, arguments, result and the table before it
    snap,           \* the last value snapshot_beta returned, held by its caller
    guard           \* the last sentinel_guard_demo call: its arguments and its result

vars == <<engine, learning_rate, clamp_min, clamp_max, flBeta, atBeta,
          phase, seeded, steps, streak, last, snap, guard>>

-----------------------------------------------------------------------------
(* Bounds of the exploration                                               *)

MaxSteps == 2
MaxActive == 2

-----------------------------------------------------------------------------
(* Generic helpers                                                         *)

EmptyMap == [x \in {} |-> 0]

\* dict.get(k, default)
Get(d, k, default) == IF k \in DOMAIN d THEN d[k] ELSE default

RECURSIVE SumOver(_, _)
SumOver(S, f) ==
    IF S = {} THEN 0
    ELSE LET x == CHOOSE y \in S : TRUE
         IN  f[x] + SumOver(S \ {x}, f)

\* all maps from at most n keys of K to values of V
MapsUpTo(K, V, n) ==
    UNION { [S -> V] : S \in { T \in SUBSET K : Cardinality(T) <= n } }

Range(seq) == { seq[i] : i \in 1..Len(seq) }

-----------------------------------------------------------------------------
(* FeedbackLayerDemo: configuration of the demo engine                     *)

FLModes == <<"soft", "direct", "coach">>
FLInvariants == <<"Demo-Panic", "Demo-Focus", "Demo-Sad", "Demo-Playful">>
FL_learning_rate == 200
FL_clamp_min == -1000
FL_clamp_max == 1000

\* __post_init__: a row for every declared mode, a 0.0 entry for every declared
\* invariant that the constructor's beta argument does not already hold
FL_post_init(beta0) ==
    [m \in Range(FLModes) \cup DOMAIN beta0 |->
        IF m \in Range(FLModes)
        THEN LET row0 == Get(beta0, m, EmptyMap)
             IN  [inv \in Range(FLInvariants) \cup DOMAIN row0 |-> Get(row0, inv, 0)]
        ELSE beta0[m]]

\* score_modes: s += row[inv] * w for every active invariant the row holds
FL_score_modes(beta, active_weights) ==
    [m \in Range(FLModes) |->
        LET row == beta[m]
            present == { inv \in DOMAIN active_weights : inv \in DOMAIN row }
        IN  SumOver(present, [inv \in present |-> row[inv] * active_weights[inv]])]

\* mutant of FL_beta_after_score: the row is read with setdefault(inv, 0.0)
FL_beta_after_score_Materialize(beta, active_weights) ==
    [m \in DOMAIN beta |->
        IF m \in Range(FLModes)
        THEN [inv \in DOMAIN beta[m] \cup DOMAIN active_weights |-> Get(beta[m], inv, 0)]
        ELSE beta[m]]

\* the table score_modes (and select_mode, which only calls it) leaves behind:
\* rows are read with row[inv] under the test inv in row, nothing is assigned
FL_beta_after_score(beta, active_weights) == beta

\* snapshot_beta: for every declared mode, the weights of the declared invariants
FL_snapshot_beta(beta) ==
    [m \in Range(FLModes) |-> [inv \in Range(FLInvariants) |-> beta[m][inv]]]

\* max(iterable, key=...): the first item whose key is not exceeded by a later
\* one; a later item replaces the best only when its key is strictly greater
RECURSIVE MaxByKey(_, _, _, _)
MaxByKey(keys, key, i, best) ==
    IF i > Len(keys) THEN best
    ELSE MaxByKey(keys, key, i + 1,
                  IF key[keys[i]] > key[best] THEN keys[i] ELSE best)

\* mutant of max(): a later item replaces the best already on an equal key
RECURSIVE MaxByKeyLast(_, _, _, _)
MaxByKeyLast(keys, key, i, best) ==
    IF i > Len(keys) THEN best
    ELSE MaxByKeyLast(keys, key, i + 1,
                      IF key[keys[i]] >= key[best] THEN keys[i] ELSE best)

\* mutant of FL_select_mode: ties go to the last declared mode
FL_select_mode_LastMax(beta, active_weights) ==
    MaxByKeyLast(FLModes, FL_score_modes(beta, active_weights), 2, FLModes[1])

\* select_mode: max(scores, key=scores.get); scores was filled in self.modes order
FL_select_mode(beta, active_weights) ==
    LET scores == FL_score_modes(beta, active_weights)
    IN  MaxByKey(FLModes, scores, 2, FLModes[1])

\* mutant of FL_delta: the update is subtracted
FL_delta_Negated(lr, reward, w) == 0 - ((lr * reward * w) \div 100)

\* mutant of FL_delta: the invariant's weight is left out of the product
FL_delta_NoWeight(lr, reward, w) == (lr * reward) \div 10

\* delta = lr * reward * w   (thousandths * tenths * tenths)
FL_delta(lr, reward, w) == (lr * reward * w) \div 100

\* mutant of FL_clamp: the upper bound is not enforced
FL_clamp_NoUpper(v) == IF v < clamp_min THEN clamp_min ELSE v

\* the if/elif clamp of apply_feedback
FL_clamp(v) ==
    IF v < clamp_min THEN clamp_min
    ELSE IF v > clamp_max THEN clamp_max
    ELSE v

\* apply_feedback: the table after the call, and the exception it raised if any
FL_apply_feedback(beta, chosen_mode, engraved_invariants, reward) ==
    IF reward = 0 THEN [beta |-> beta, raised |-> ""]
    ELSE IF chosen_mode \notin DOMAIN beta THEN [beta |-> beta, raised |-> "KeyError"]
    ELSE LET row == beta[chosen_mode]
             newRow == [inv \in DOMAIN row \cup DOMAIN engraved_invariants |->
                          IF inv \in DOMAIN engraved_invariants
                          THEN FL_clamp(Get(row, inv, 0)
                                 + FL_delta(learning_rate, reward, engraved_invariants[inv]))
                          ELSE row[inv]]
         IN  [beta |-> [beta EXCEPT ![chosen_mode] = newRow], raised |-> ""]

-----------------------------------------------------------------------------
(* ArchetypeTunerDemo: configuration of the tuner CLI                      *)

ATModes == <<"STRICT", "LENIENT", "BALANCED">>
AT_learning_rate == 100
AT_clamp_min == -2000
AT_clamp_max == 2000

\* mutant of AT_score_modes: a token without weight counts with weight 1.0
AT_score_modes_DefaultOne(beta, active_tokens, weights) ==
    [m \in Range(ATModes) |->
        LET counted == { tok \in active_tokens :
                            /\ Get(weights, tok, 10) > 0
                            /\ <<m, tok>> \in DOMAIN beta }
        IN  SumOver(counted, [tok \in counted |-> beta[<<m, tok>>] * Get(weights, tok, 10)])]

\* score_modes: a token whose weight (weights.get(tok, 0.0)) is <= 0 is skipped;
\* otherwise scores[m] += b * wt for every mode with an entry (m, tok)
AT_score_modes(beta, active_tokens, weights) ==
    [m \in Range(ATModes) |->
        LET counted == { tok \in active_tokens :
                            /\ Get(weights, tok, 0) > 0
                            /\ <<m, tok>> \in DOMAIN beta }
        IN  SumOver(counted, [tok \in counted |-> beta[<<m, tok>>] * Get(weights, tok, 0)])]

\* the table score_modes (and select_mode) leaves behind: self.beta.get(key) only
AT_beta_after_score(beta, active_tokens) == beta

\* f"{m}|{t}", the key of a pair in the snapshot
AT_snapshot_key(k) == k[1] \o "|" \o k[2]

\* snapshot_beta: a new dict from the keys f"{m}|{t}" to the weights (no mode of
\* the table holds a "|", so no two pairs share a key)
AT_snapshot_beta(beta) ==
    [s \in { AT_snapshot_key(k) : k \in DOMAIN beta } |->
        beta[CHOOSE k \in DOMAIN beta : AT_snapshot_key(k) = s]]

\* the loop of select_mode over self.modes[1:], replacing the best on s > best_score
RECURSIVE AT_select_loop(_, _, _)
AT_select_loop(scores, i, best_mode) ==
    IF i > Len(ATModes) THEN best_mode
    ELSE AT_select_loop(scores, i + 1,
                        IF scores[ATModes[i]] > scores[best_mode]
                        THEN ATModes[i] ELSE best_mode)

\* mutant of the loop: the best is replaced on s >= best_score
RECURSIVE AT_select_loop_LastMax(_, _, _)
AT_select_loop_LastMax(scores, i, best_mode) ==
    IF i > Len(ATModes) THEN best_mode
    ELSE AT_select_loop_LastMax(scores, i + 1,
                                IF scores[ATModes[i]] >= scores[best_mode]
                                THEN ATModes[i] ELSE best_mode)

\* mutant of AT_select_mode: ties go to the last declared mode
AT_select_mode_LastMax(beta, active_tokens, weights) ==
    AT_select_loop_LastMax(AT_score_modes(beta, active_tokens, weights), 2, ATModes[1])

AT_select_mode(beta, active_tokens, weights) ==
    AT_select_loop(AT_score_modes(beta, active_tokens, weights), 2, ATModes[1])

\* self.learning_rate * reward   (thousandths * tenths)
AT_delta(lr, reward) == (lr * reward) \div 10

AT_clamp(v) ==
    IF v < clamp_min THEN clamp_min
    ELSE IF v > clamp_max THEN clamp_max
    ELSE v

\* the clamp loop of apply_feedback
AT_clamp_all(beta) == [k \in DOMAIN beta |-> AT_clamp(beta[k])]

\* mutant of AT_apply_feedback: no early return on reward == 0.0
AT_apply_feedback_NoZeroCheck(beta, mode_used, engraved_tokens, reward) ==
    LET touched == { <<mode_used, tok>> : tok \in engraved_tokens }
        added == [k \in DOMAIN beta \cup touched |->
                    IF k \in touched
                    THEN Get(beta, k, 0) + ((learning_rate * reward) \div 10)
                    ELSE beta[k]]
    IN  AT_clamp_all(added)

\* apply_feedback: first loop adds the delta to every engraved key of mode_used,
\* second loop clamps every key of the table
AT_apply_feedback(beta, mode_used, engraved_tokens, reward) ==
    IF reward = 0 THEN beta
    ELSE LET touched == { <<mode_used, tok>> : tok \in engraved_tokens }
             added == [k \in DOMAIN beta \cup touched |->
                         IF k \in touched
                         THEN Get(beta, k, 0) + AT_delta(learning_rate, reward)
                         ELSE beta[k]]
         IN  AT_clamp_all(added)

-----------------------------------------------------------------------------
(* Seeding (_demo_tuner_cli).  A seed key is a string; the model holds it  *)
(* as the sequence of its pieces, where the piece "|" is the separator.    *)

RECURSIVE Join(_)
Join(pieces) == IF pieces = <<>> THEN "" ELSE Head(pieces) \o Join(Tail(pieces))

\* index of the first "|" of the key, 0 when it has none
RECURSIVE FirstSep(_, _)
FirstSep(k, i) ==
    IF i > Len(k) THEN 0
    ELSE IF k[i] = "|" THEN i
    ELSE FirstSep(k, i + 1)

\* index of the last "|" of the key, 0 when it has none
RECURSIVE LastSep(_, _)
LastSep(k, i) ==
    IF i < 1 THEN 0
    ELSE IF k[i] = "|" THEN i
    ELSE LastSep(k, i - 1)

\* mutant of str_split1: k.rsplit("|", 1), the split at the last separator
str_split1_Last(k) ==
    LET i == LastSep(k, Len(k))
    IN  IF i = 0 THEN << Join(k) >>
        ELSE << Join(SubSeq(k, 1, i - 1)), Join(SubSeq(k, i + 1, Len(k))) >>

\* k.split("|", 1): one part when the key has no separator, else two
str_split1(k) ==
    LET i == FirstSep(k, 1)
    IN  IF i = 0 THEN << Join(k) >>
        ELSE << Join(SubSeq(k, 1, i - 1)), Join(SubSeq(k, i + 1, Len(k))) >>

\* one pass of the seed loop: unpacking into (m, t) raises ValueError unless
\* there are exactly two parts, the key is then skipped
AT_seed_one(beta, k, v) ==
    LET parts == str_split1(k)
    IN  IF Len(parts) # 2 THEN beta
        ELSE (<<parts[1], parts[2]>> :> v) @@ beta

\* the seed loop over cfg_beta.items(), keys taken in any order (distinct keys
\* with a separator split into distinct pairs, so the order does not matter)
RECURSIVE AT_seed(_, _, _)
AT_seed(beta, cfg_beta, keys) ==
    IF keys = {} THEN beta
    ELSE LET k == CHOOSE x \in keys : TRUE
         IN  AT_seed(AT_seed_one(beta, k, cfg_beta[k]), cfg_beta, keys \ {k})

-----------------------------------------------------------------------------
(* Inputs of the calls                                                     *)

\* turn weights and rewards, in tenths; callers are not range-checked, so a
\* negative weight and a negative reward are among them
FLInputWeights == {-5, 0, 10}
ATInputWeights == {-5, 0, 5}
Rewards == {-10, 0, 10}

\* "Demo-Other" is not a declared invariant, "unknown" is not a declared mode
FLInputTokens == {"Demo-Panic", "Demo-Other"}
FLModeArgs == {FLModes[1], FLModes[2], "unknown"}
FLActiveMaps == MapsUpTo(FLInputTokens, FLInputWeights, MaxActive)

\* the constructor's beta argument: nothing, or a weight above clamp_max for
\* one pair and a weight just below clamp_max for another, or a weight above
\* clamp_max for the second mode and a weight at clamp_max for the first
FLSeedTables ==
    { EmptyMap,
      ("soft" :> ("Demo-Panic" :> 5000)) @@ ("direct" :> ("Demo-Panic" :> 900)),
      ("soft" :> ("Demo-Panic" :> 1000)) @@ ("direct" :> ("Demo-Panic" :> 5000)) }

ATInputTokens == {"therapy-drift", "ignored-wants"}
ATModeArgs == {ATModes[1], ATModes[2], "unknown"}
ATTokenSets == { T \in SUBSET ATInputTokens : Cardinality(T) <= MaxActive }
ATWeightMaps == MapsUpTo(ATInputTokens, ATInputWeights, MaxActive)

\* seed maps (cfg_beta): keys with one separator, without any, with two;
\* values inside and outside the clamp range
KeyStrictTherapy == <<"STRICT", "|", "therapy-drift">>
KeyLenientIgnored == <<"LENIENT", "|", "ignored-wants">>
KeyNoSep == <<"STRICT-therapy-drift">>
KeyTwoSep == <<"BALANCED", "|", "ignored-wants", "|", "x">>
SeedMaps ==
    { (KeyStrictTherapy :> 5000),
      (KeyStrictTherapy :> 900) @@ (KeyLenientIgnored :> -500),
      (KeyNoSep :> 900) @@ (KeyLenientIgnored :> -5000),
      (KeyTwoSep :> 300) }

-----------------------------------------------------------------------------
(* The state machine                                                       *)

NoCall ==
    [op |-> "none", mode |-> "", active |-> EmptyMap, tokens |-> {}, reward |-> 0,
     result |-> "", scores |-> EmptyMap, raised |-> "", seeds |-> EmptyMap,
     pre |-> [fl |-> EmptyMap, at |-> EmptyMap]]

Pre == [fl |-> flBeta, at |-> atBeta]

NoSnapshot == [taken |-> FALSE, fl |-> EmptyMap, at |-> EmptyMap, of |-> [fl |-> EmptyMap, at |-> EmptyMap]]

NoGuard ==
    [copy |-> "", flags |-> {}, phrases |-> {}, has_list |-> FALSE,
     user_wants_bullets |-> FALSE, decision |-> "", bypassed |-> FALSE,
     therapy |-> 0, takeover |-> 0, ignored |-> 0]

Init ==
    /\ engine \in {"FL", "AT"}
    /\ \/ /\ engine = "FL"
          /\ learning_rate = FL_learning_rate
          /\ clamp_min = FL_clamp_min
          /\ clamp_max = FL_clamp_max
          /\ \E beta0 \in FLSeedTables : flBeta = FL_post_init(beta0)
          /\ atBeta = EmptyMap
          /\ phase = "run"
       \/ /\ engine = "AT"
          /\ learning_rate = AT_learning_rate
          /\ clamp_min = AT_clamp_min
          /\ clamp_max = AT_clamp_max
          /\ flBeta = EmptyMap
          /\ atBeta = EmptyMap
          /\ phase = "seed"
    /\ seeded = 0
    /\ steps = 0
    /\ streak = 0
    /\ last = NoCall
    /\ snap = NoSnapshot
    /\ guard = NoGuard

Config == <<engine, learning_rate, clamp_min, clamp_max>>

\* the seed loop of _demo_tuner_cli, run once before the first call
SeedAT ==
    /\ engine = "AT" /\ phase = "seed" /\ seeded = 0
    /\ \E cfg_beta \in SeedMaps :
          /\ atBeta' = AT_seed(atBeta, cfg_beta, DOMAIN cfg_beta)
          /\ last' = [NoCall EXCEPT !.op = "seed", !.seeds = cfg_beta, !.pre = Pre]
    /\ seeded' = 1
    /\ UNCHANGED <<Config, flBeta, phase, steps, streak, snap, guard>>

ScoreFL ==
    /\ engine = "FL" /\ steps < MaxSteps
    /\ \E a \in FLActiveMaps :
          /\ last' = [NoCall EXCEPT !.op = "score_modes", !.active = a,
                        !.scores = FL_score_modes(flBeta, a), !.pre = Pre]
          /\ flBeta' = FL_beta_after_score(flBeta, a)
    /\ steps' = steps + 1 /\ streak' = 0 /\ phase' = "run"
    /\ UNCHANGED <<Config, atBeta, seeded, snap, guard>>

SelectFL ==
    /\ engine = "FL" /\ steps < MaxSteps
    /\ \E a \in FLActiveMaps :
          /\ last' = [NoCall EXCEPT !.op = "select_mode", !.active = a,
                        !.result = FL_select_mode(flBeta, a), !.pre = Pre]
          /\ flBeta' = FL_beta_after_score(flBeta, a)
    /\ steps' = steps + 1 /\ streak' = 0 /\ phase' = "run"
    /\ UNCHANGED <<Config, atBeta, seeded, snap, guard>>

ApplyFL ==
    /\ engine = "FL" /\ steps < MaxSteps
    /\ \E m \in FLModeArgs, e \in FLActiveMaps, r \in Rewards :
          LET out == FL_apply_feedback(flBeta, m, e, r)
          IN  /\ flBeta' = out.beta
              /\ last' = [NoCall EXCEPT !.op = "apply_feedback", !.mode = m, !.active = e,
                            !.reward = r, !.raised = out.raised, !.pre = Pre]
              /\ streak' = IF /\ last.op = "apply_feedback" /\ last.mode = m
                              /\ last.active = e /\ last.reward = r
                           THEN streak + 1 ELSE 1
    /\ steps' = steps + 1 /\ phase' = "run"
    /\ UNCHANGED <<Config, atBeta, seeded, snap, guard>>

ScoreAT ==
    /\ engine = "AT" /\ steps < MaxSteps
    /\ \E toks \in ATTokenSets, w \in ATWeightMaps :
          /\ last' = [NoCall EXCEPT !.op = "score_modes", !.tokens = toks, !.active = w,
                        !.scores = AT_score_modes(atBeta, toks, w), !.pre = Pre]
          /\ atBeta' = AT_beta_after_score(atBeta, toks)
    /\ steps' = steps + 1 /\ streak' = 0 /\ phase' = "run"
    /\ UNCHANGED <<Config, flBeta, seeded, snap, guard>>

SelectAT ==
    /\ engine = "AT" /\ steps < MaxSteps
    /\ \E toks \in ATTokenSets, w \in ATWeightMaps :
          /\ last' = [NoCall EXCEPT !.op = "select_mode", !.tokens = toks, !.active = w,
                        !.result = AT_select_mode(atBeta, toks, w), !.pre = Pre]
          /\ atBeta' = AT_beta_after_score(atBeta, toks)
    /\ steps' = steps + 1 /\ streak' = 0 /\ phase' = "run"
    /\ UNCHANGED <<Config, flBeta, seeded, snap, guard>>

\* apply_feedback takes no weights; the caller's weights of the turn (the ones
\* of its last score_modes / select_mode call) stay recorded in last.active
ApplyAT ==
    /\ engine = "AT" /\ steps < MaxSteps
    /\ \E m \in ATModeArgs, toks \in ATTokenSets, r \in Rewards :
          /\ atBeta' = AT_apply_feedback(atBeta, m, toks, r)
          /\ last' = [NoCall EXCEPT !.op = "apply_feedback", !.mode = m, !.tokens = toks,
                        !.active = IF last.op \in {"score_modes", "select_mode"}
                                   THEN last.active ELSE EmptyMap,
                        !.reward = r, !.pre = Pre]
          /\ streak' = IF /\ last.op = "apply_feedback" /\ last.mode = m
                          /\ last.tokens = toks /\ last.reward = r
                       THEN streak + 1 ELSE 1
    /\ steps' = steps + 1 /\ phase' = "run"
    /\ UNCHANGED <<Config, flBeta, seeded, snap, guard>>

\* snapshot_beta builds new dicts of floats: the value handed out is a copy
SnapshotFL ==
    /\ engine = "FL" /\ steps < MaxSteps
    /\ snap' = [NoSnapshot EXCEPT !.taken = TRUE, !.fl = FL_snapshot_beta(flBeta), !.of = Pre]
    /\ last' = [NoCall EXCEPT !.op = "snapshot_beta", !.pre = Pre]
    /\ steps' = steps + 1 /\ streak' = 0 /\ phase' = "run"
    /\ UNCHANGED <<Config, flBeta, atBeta, seeded, guard>>

SnapshotAT ==
    /\ engine = "AT" /\ steps < MaxSteps
    /\ snap' = [NoSnapshot EXCEPT !.taken = TRUE, !.at = AT_snapshot_beta(atBeta), !.of = Pre]
    /\ last' = [NoCall EXCEPT !.op = "snapshot_beta", !.pre = Pre]
    /\ steps' = steps + 1 /\ streak' = 0 /\ phase' = "run"
    /\ UNCHANGED <<Config, flBeta, atBeta, seeded, guard>>

Next ==
    \/ SeedAT
    \/ ScoreFL
    \/ SelectFL
    \/ ApplyFL
    \/ ScoreAT
    \/ SelectAT
    \/ ApplyAT
    \/ SnapshotFL
    \/ SnapshotAT

Spec == Init /\ [][Next]_vars

\* the clamp parameters a caller can pass: the defaults of both classes and a
\* pair with clamp_min above clamp_max (neither the dataclasses nor the CLI,
\* which takes params.clamp_min and params.clamp_max from the config file,
\* compare the two)
ClampArgs ==
    { <<FL_clamp_min, FL_clamp_max>>, <<AT_clamp_min, AT_clamp_max>>, <<1000, -1000>> }

\* construction with explicit clamp parameters
InitCfg ==
    /\ engine \in {"FL", "AT"}
    /\ \E c \in ClampArgs : clamp_min = c[1] /\ clamp_max = c[2]
    /\ \/ /\ engine = "FL"
          /\ learning_rate = FL_learning_rate
          /\ flBeta = FL_post_init(EmptyMap)
          /\ atBeta = EmptyMap
          /\ phase = "run"
       \/ /\ engine = "AT"
          /\ learning_rate = AT_learning_rate
          /\ flBeta = EmptyMap
          /\ atBeta = EmptyMap
          /\ phase = "seed"
    /\ seeded = 0
    /\ steps = 0
    /\ streak = 0
    /\ last = NoCall
    /\ snap = NoSnapshot
    /\ guard = NoGuard

SpecCfg == InitCfg /\ [][Next]_vars

-----------------------------------------------------------------------------
(* The sentinel guard, in its two copies: sentinel_os (A) and              *)
(* sentinel_os_demo (B).  A candidate output is the set of the detector    *)
(* phrases its lowercased text contains, and whether it contains one of    *)
(* the list tokens "-", "1.", "\u2022" (no phrase contains a list token).   *)
(* flags is the set of the flags of request_meta.flags that are true.      *)
(* Scores and thresholds are in tenths: 0.4 is 4, and the float sums       *)
(* 0.4 + 0.4 = 0.8 and 2 * 0.4 = 0.8 are exact, so >= 0.8 holds for them.  *)

\* copy A: the keywords of _demo_detect_therapy_script, the markers of
\* _demo_detect_assistant_takeover and the local thresholds
A_keywords == {"as your therapist", "let's process your feelings", "inner child"}
A_markers == {"as an ai assistant", "as a language model", "chatgpt"}
HARD_BLOCK == 8
SOFT_WARN == 4

\* copy B: the module constants
THERAPY_KEYWORDS == {"as your therapist", "let's process your feelings", "inner child"}
ASSISTANT_SELF_REFERENCE_MARKERS == {"as your assistant", "as this assistant"}
HARD_BLOCK_THRESHOLD == 8
SOFT_WARN_THRESHOLD == 4

\* min(score, 1.0)
CappedAtOne(score) == IF score < 10 THEN score ELSE 10

\* copy A: score += 0.4 per keyword found, capped
demo_detect_therapy_script(phrases) == CappedAtOne(4 * Cardinality(phrases \cap A_keywords))
\* copy A: score += 0.6 per marker found, capped
demo_detect_assistant_takeover(phrases) == CappedAtOne(6 * Cardinality(phrases \cap A_markers))
\* copy A: 0.7 when bullets were wanted and the text has no list token
demo_detect_ignored_user_wants(has_list, user_wanted_bullets) ==
    IF ~user_wanted_bullets THEN 0 ELSE IF has_list THEN 0 ELSE 7

\* copy B: min(matches * 0.4, 1.0)
demo_detect_therapy_tone(phrases) ==
    CappedAtOne(Cardinality(phrases \cap THERAPY_KEYWORDS) * 4)
\* copy B: min(matches * 0.6, 1.0)
demo_detect_assistant_self_reference(phrases) ==
    CappedAtOne(Cardinality(phrases \cap ASSISTANT_SELF_REFERENCE_MARKERS) * 6)
\* copy B: 0.7 when bullets were wanted and the text has no list token
demo_detect_ignored_user_format(has_list, user_wants_bullets) ==
    IF ~user_wants_bullets THEN 0 ELSE IF has_list THEN 0 ELSE 7

\* mutant of A_sentinel_guard_demo: the soft check comes before the hard check
A_sentinel_guard_demo_SoftFirst(flags, phrases, has_list, user_wants_bullets) ==
    IF "ALLOW_ASSISTANT_FOR_DEMO" \in flags
    THEN [decision |-> "ALLOW", bypassed |-> TRUE, therapy |-> 0, takeover |-> 0, ignored |-> 0]
    ELSE LET therapy_score == demo_detect_therapy_script(phrases)
             takeover_score == demo_detect_assistant_takeover(phrases)
             ignored_wants_score == demo_detect_ignored_user_wants(has_list, user_wants_bullets)
             notes == [bypassed |-> FALSE, therapy |-> therapy_score,
                       takeover |-> takeover_score, ignored |-> ignored_wants_score]
         IN  IF \/ therapy_score >= SOFT_WARN
                \/ takeover_score >= SOFT_WARN
                \/ ignored_wants_score >= SOFT_WARN
             THEN [decision |-> "SCRUB_AND_WARN"] @@ notes
             ELSE IF therapy_score >= HARD_BLOCK \/ takeover_score >= HARD_BLOCK
             THEN [decision |-> "BLOCK_AND_RETRY"] @@ notes
             ELSE [decision |-> "ALLOW"] @@ notes

\* copy A of sentinel_guard_demo: the decision and the notes
A_sentinel_guard_demo(flags, phrases, has_list, user_wants_bullets) ==
    IF "ALLOW_ASSISTANT_FOR_DEMO" \in flags
    THEN [decision |-> "ALLOW", bypassed |-> TRUE, therapy |-> 0, takeover |-> 0, ignored |-> 0]
    ELSE LET therapy_score == demo_detect_therapy_script(phrases)
             takeover_score == demo_detect_assistant_takeover(phrases)
             ignored_wants_score == demo_detect_ignored_user_wants(has_list, user_wants_bullets)
             notes == [bypassed |-> FALSE, therapy |-> therapy_score,
                       takeover |-> takeover_score, ignored |-> ignored_wants_score]
         IN  IF therapy_score >= HARD_BLOCK \/ takeover_score >= HARD_BLOCK
             THEN [decision |-> "BLOCK_AND_RETRY"] @@ notes
             ELSE IF \/ therapy_score >= SOFT_WARN
                     \/ takeover_score >= SOFT_WARN
                     \/ ignored_wants_score >= SOFT_WARN
             THEN [decision |-> "SCRUB_AND_WARN"] @@ notes
             ELSE [decision |-> "ALLOW"] @@ notes

\* copy B of sentinel_guard_demo: the decision and the notes
B_sentinel_guard_demo(flags, phrases, has_list, user_wants_bullets) ==
    IF "SKIP_SENTINEL_FOR_DEMO" \in flags
    THEN [decision |-> "ALLOW", bypassed |-> TRUE, therapy |-> 0, takeover |-> 0, ignored |-> 0]
    ELSE LET therapy_score == demo_detect_therapy_tone(phrases)
             takeover_score == demo_detect_assistant_self_reference(phrases)
             ignored_wants_score == demo_detect_ignored_user_format(has_list, user_wants_bullets)
             notes == [bypassed |-> FALSE, therapy |-> therapy_score,
                       takeover |-> takeover_score, ignored |-> ignored_wants_score]
         IN  IF \/ therapy_score >= HARD_BLOCK_THRESHOLD
                \/ takeover_score >= HARD_BLOCK_THRESHOLD
             THEN [decision |-> "BLOCK_AND_RETRY"] @@ notes
             ELSE IF \/ therapy_score >= SOFT_WARN_THRESHOLD
                     \/ takeover_score >= SOFT_WARN_THRESHOLD
                     \/ ignored_wants_score >= SOFT_WARN_THRESHOLD
             THEN [decision |-> "SCRUB_AND_WARN"] @@ notes
             ELSE [decision |-> "ALLOW"] @@ notes

\* the inputs: flags of either copy, phrases of either copy's detectors; the
\* guard keeps no state, so one call per behaviour covers it
GuardFlags == {"ALLOW_ASSISTANT_FOR_DEMO", "SKIP_SENTINEL_FOR_DEMO"}
GuardPhrases == A_keywords \cup A_markers \cup THERAPY_KEYWORDS \cup ASSISTANT_SELF_REFERENCE_MARKERS

InitGuard ==
    /\ engine = "none"
    /\ learning_rate = 0 /\ clamp_min = 0 /\ clamp_max = 0
    /\ flBeta = EmptyMap /\ atBeta = EmptyMap
    /\ phase = "guard" /\ seeded = 0 /\ steps = 0 /\ streak = 0
    /\ last = NoCall
    /\ snap = NoSnapshot
    /\ guard = NoGuard

GuardA ==
    /\ phase = "guard"
    /\ \E flags \in SUBSET GuardFlags, phrases \in SUBSET GuardPhrases,
          has_list \in BOOLEAN, user_wants_bullets \in BOOLEAN :
          guard' = [copy |-> "A", flags |-> flags, phrases |-> phrases,
                    has_list |-> has_list, user_wants_bullets |-> user_wants_bullets]
                   @@ A_sentinel_guard_demo(flags, phrases, has_list, user_wants_bullets)
    /\ phase' = "decided"
    /\ UNCHANGED <<Config, flBeta, atBeta, seeded, steps, streak, last, snap>>

GuardB ==
    /\ phase = "guard"
    /\ \E flags \in SUBSET GuardFlags, phrases \in SUBSET GuardPhrases,
          has_list \in BOOLEAN, user_wants_bullets \in BOOLEAN :
          guard' = [copy |-> "B", flags |-> flags, phrases |-> phrases,
                    has_list |-> has_list, user_wants_bullets |-> user_wants_bullets]
                   @@ B_sentinel_guard_demo(flags, phrases, has_list, user_wants_bullets)
    /\ phase' = "decided"
    /\ UNCHANGED <<Config, flBeta, atBeta, seeded, steps, streak, last, snap>>

NextGuard ==
    \/ GuardA
    \/ GuardB

SpecGuard == InitGuard /\ [][NextGuard]_vars

-----------------------------------------------------------------------------
(* Vocabulary of the properties                                            *)

InRange(v) == clamp_min <= v /\ v <= clamp_max
Min(a, b) == IF a < b THEN a ELSE b
Max(a, b) == IF a > b THEN a ELSE b

IsApply == last.op = "apply_feedback"

\* the pairs an apply_feedback call names: (mode, t) for t engraved
FLTargets(m, t) ==
    /\ IsApply /\ last.reward # 0 /\ last.raised = ""
    /\ last.mode = m /\ t \in DOMAIN last.active
ATTargets(k) ==
    /\ IsApply /\ last.reward # 0
    /\ last.mode = k[1] /\ k[2] \in last.tokens

FLAllInRange == \A m \in DOMAIN flBeta : \A t \in DOMAIN flBeta[m] : InRange(flBeta[m][t])
ATAllInRange == \A k \in DOMAIN atBeta : InRange(atBeta[k])

-----------------------------------------------------------------------------
(* C1, as stated: after apply_feedback calls every weight of the table,    *)
(* touched or not, lies in [clamp_min, clamp_max].                         *)
C1_AllWeightsClamped ==
    IsApply => (FLAllInRange /\ ATAllInRange)

(* C1, amended: after an apply_feedback call with non-zero reward that did *)
(* not raise, every pair the call names has an entry and its weight lies   *)
(* in [clamp_min, clamp_max] (the engine having clamp_min <= clamp_max).   *)
C1_TouchedWeightsClamped ==
    (IsApply /\ last.reward # 0 /\ last.raised = "" /\ clamp_min <= clamp_max) =>
        /\ engine = "FL" =>
              \A t \in DOMAIN last.active :
                  /\ t \in DOMAIN flBeta[last.mode]
                  /\ InRange(flBeta[last.mode][t])
        /\ engine = "AT" =>
              \A tok \in last.tokens :
                  /\ <<last.mode, tok>> \in DOMAIN atBeta
                  /\ InRange(atBeta[<<last.mode, tok>>])

\* a non-zero-reward call has clamped the pairs it named (one of them came
\* from above clamp_max), while an untouched seeded weight is still outside
C1_Witness ==
    /\ engine = "FL" /\ IsApply /\ last.reward # 0 /\ last.mode = "direct"
    /\ "Demo-Panic" \in DOMAIN last.active
    /\ flBeta["direct"]["Demo-Panic"] = clamp_max
    /\ ~InRange(flBeta["soft"]["Demo-Panic"])

(* C2: apply_feedback with reward 0.0 leaves every stored weight unchanged *)
(* and creates no entry, in both engines, whatever the mode and tokens.    *)
C2_ZeroRewardNoOp ==
    (IsApply /\ last.reward = 0) =>
        /\ flBeta = last.pre.fl
        /\ atBeta = last.pre.at
        /\ last.raised = ""

\* a zero-reward call naming a pair without entry, on a table that holds a
\* seeded weight outside the clamp range
C2_Witness ==
    /\ engine = "AT" /\ IsApply /\ last.reward = 0
    /\ last.mode = "unknown" /\ last.tokens # {}
    /\ \E k \in DOMAIN atBeta : ~InRange(atBeta[k])

(* C3: a seeded value is stored as given, and a stored value outside the   *)
(* clamp range keeps its value through every call except an apply_feedback *)
(* with non-zero reward that names its own (mode, token) pair, which       *)
(* brings it into range.                                                   *)
C3_SeedBypass ==
    /\ last.op = "seed" =>
          \A k \in DOMAIN last.seeds :
              LET parts == str_split1(k)
              IN  Len(parts) = 2 =>
                     /\ <<parts[1], parts[2]>> \in DOMAIN atBeta
                     /\ atBeta[<<parts[1], parts[2]>>] = last.seeds[k]
    /\ (engine = "FL" /\ last.op \notin {"none", "seed"}) =>
          \A m \in DOMAIN last.pre.fl : \A t \in DOMAIN last.pre.fl[m] :
              ~InRange(last.pre.fl[m][t]) =>
                  IF FLTargets(m, t)
                  THEN InRange(flBeta[m][t])
                  ELSE flBeta[m][t] = last.pre.fl[m][t]
    /\ (engine = "AT" /\ last.op \notin {"none", "seed"}) =>
          \A k \in DOMAIN last.pre.at :
              ~InRange(last.pre.at[k]) =>
                  IF ATTargets(k)
                  THEN InRange(atBeta[k])
                  ELSE atBeta[k] = last.pre.at[k]

-----------------------------------------------------------------------------
\* position of a mode in a list of declared modes
IndexOf(modes, m) == CHOOSE i \in 1..Len(modes) : modes[i] = m

\* r is the first mode of the list, in declared order, that reaches the
\* maximum of the scores
FirstMax(modes, scores, r) ==
    /\ r \in Range(modes)
    /\ \A j \in 1..Len(modes) : scores[modes[j]] <= scores[r]
    /\ \A j \in 1..Len(modes) : j < IndexOf(modes, r) => scores[modes[j]] < scores[r]

AllEqual(modes, scores) ==
    \A i, j \in 1..Len(modes) : scores[modes[i]] = scores[modes[j]]

(* C4: select_mode returns the first mode in declared order whose score is *)
(* the maximum; with all scores equal (the empty input among them) it      *)
(* returns the first declared mode.                                        *)
C4_FirstMaxSelected ==
    last.op = "select_mode" =>
        /\ engine = "FL" =>
              LET sc == FL_score_modes(last.pre.fl, last.active)
              IN  /\ FirstMax(FLModes, sc, last.result)
                  /\ AllEqual(FLModes, sc) => last.result = FLModes[1]
                  /\ last.active = EmptyMap => last.result = FLModes[1]
        /\ engine = "AT" =>
              LET sc == AT_score_modes(last.pre.at, last.tokens, last.active)
              IN  /\ FirstMax(ATModes, sc, last.result)
                  /\ AllEqual(ATModes, sc) => last.result = ATModes[1]
                  /\ last.tokens = {} => last.result = ATModes[1]

\* the second and third declared modes tie for the maximum, above the first:
\* the second is returned
C4_Witness ==
    /\ engine = "AT" /\ last.op = "select_mode" /\ last.result = ATModes[2]
    /\ LET sc == AT_score_modes(last.pre.at, last.tokens, last.active)
       IN  sc[ATModes[2]] = sc[ATModes[3]] /\ sc[ATModes[1]] < sc[ATModes[2]]

(* C5: repeating apply_feedback(m, {t: w}, r) with w > 0, r > 0 and        *)
(* learning_rate > 0, the score of m over {t: w} after a call is never     *)
(* below the score after the call before it, and it is the same once       *)
(* beta[m][t] has reached clamp_max.                                        *)
C5_MonotoneUnderPositiveReward ==
    ( /\ engine = "FL" /\ IsApply /\ streak >= 2 /\ last.raised = ""
      /\ Cardinality(DOMAIN last.active) = 1
      /\ \A t \in DOMAIN last.active : last.active[t] > 0
      /\ last.reward > 0 /\ learning_rate > 0 ) =>
        LET m == last.mode
            before == FL_score_modes(last.pre.fl, last.active)[m]
            after == FL_score_modes(flBeta, last.active)[m]
        IN  /\ after >= before
            /\ \A t \in DOMAIN last.active :
                  last.pre.fl[m][t] = clamp_max => after = before

\* the second of two identical positive calls found the weight at clamp_max
\* (the first one saturated it) and left the score as it was
C5_Witness ==
    /\ engine = "FL" /\ IsApply /\ streak >= 2 /\ last.reward > 0
    /\ last.mode = "direct" /\ last.active = ("Demo-Panic" :> 10)
    /\ last.pre.fl["direct"]["Demo-Panic"] = clamp_max
    /\ flBeta["direct"]["Demo-Panic"] = clamp_max

(* C6: the demo's rounds 1 and 2 (modes soft, direct, coach; four Demo-*   *)
(* invariants; learning_rate 0.2; clamp [-1, 1]): on the all-zero table    *)
(* select_mode({Demo-Panic: 1.0}) is soft; apply_feedback(soft,            *)
(* {Demo-Panic: 1.0}, +1.0) sets beta[soft][Demo-Panic] to 0.2 and changes *)
(* nothing else; select_mode is then soft again and the same               *)
(* apply_feedback sets beta[soft][Demo-Panic] to 0.4.                      *)
DemoActive == ("Demo-Panic" :> 10)
DemoZeroTable == [m \in Range(FLModes) |-> [inv \in Range(FLInvariants) |-> 0]]
DemoRound1Table == [DemoZeroTable EXCEPT !["soft"]["Demo-Panic"] = 200]
IsDemoApply ==
    /\ IsApply /\ last.mode = "soft" /\ last.active = DemoActive /\ last.reward = 10

C6_DemoScenario ==
    (engine = "FL" /\ learning_rate = 200 /\ clamp_min = -1000 /\ clamp_max = 1000) =>
        /\ flBeta = DemoZeroTable => FL_select_mode(flBeta, DemoActive) = "soft"
        /\ (last.op = "select_mode" /\ last.active = DemoActive
               /\ last.pre.fl \in {DemoZeroTable, DemoRound1Table}) => last.result = "soft"
        /\ (IsDemoApply /\ last.pre.fl = DemoZeroTable) => flBeta = DemoRound1Table
        /\ flBeta = DemoRound1Table => FL_select_mode(flBeta, DemoActive) = "soft"
        /\ (IsDemoApply /\ last.pre.fl = DemoRound1Table) =>
              flBeta = [DemoZeroTable EXCEPT !["soft"]["Demo-Panic"] = 400]

\* the second apply_feedback of the demo has run on the table of round 1
C6_Witness ==
    /\ engine = "FL" /\ IsDemoApply /\ last.pre.fl = DemoRound1Table
    /\ flBeta["soft"]["Demo-Panic"] = 400

(* C7: FeedbackLayerDemo.apply_feedback, declared mode, non-zero reward:   *)
(* every engraved (token, weight) sets beta[mode][token] to                *)
(* min(clamp_max, max(clamp_min, old + learning_rate * reward * weight)),  *)
(* old being the stored weight or 0.0 without entry; a token without entry *)
(* gets one.                                                               *)
C7_FLUpdateRule ==
    ( /\ engine = "FL" /\ IsApply /\ last.reward # 0
      /\ last.mode \in Range(FLModes) ) =>
        \A t \in DOMAIN last.active :
            LET oldRow == last.pre.fl[last.mode]
                old == IF t \in DOMAIN oldRow THEN oldRow[t] ELSE 0
                delta == (learning_rate * last.reward * last.active[t]) \div 100
            IN  /\ t \in DOMAIN flBeta[last.mode]
                /\ flBeta[last.mode][t] = Min(clamp_max, Max(clamp_min, old + delta))

\* an undeclared token got its entry from the call, next to a declared token
\* that was clamped
C7_Witness ==
    /\ engine = "FL" /\ IsApply /\ last.mode = "direct" /\ last.reward = 10
    /\ last.active = ("Demo-Other" :> -5) @@ ("Demo-Panic" :> 10)
    /\ "Demo-Other" \notin DOMAIN last.pre.fl["direct"]
    /\ flBeta["direct"]["Demo-Other"] = -100
    /\ last.pre.fl["direct"]["Demo-Panic"] = 900
    /\ flBeta["direct"]["Demo-Panic"] = 1000

-----------------------------------------------------------------------------
(* C8: in ArchetypeTunerDemo the delta apply_feedback adds to             *)
(* beta[(mode, token)] is learning_rate * reward * weight, weight being    *)
(* the token's weight of the turn (the one select_mode scored it with),    *)
(* before clamping.                                                        *)
C8_ATDeltaScaledByWeight ==
    ( /\ engine = "AT" /\ IsApply /\ last.reward # 0
      /\ \A tok \in last.tokens : tok \in DOMAIN last.active /\ last.active[tok] > 0 ) =>
        \A tok \in last.tokens :
            LET k == <<last.mode, tok>>
                old == IF k \in DOMAIN last.pre.at THEN last.pre.at[k] ELSE 0
                delta == (learning_rate * last.reward * last.active[tok]) \div 100
            IN  /\ k \in DOMAIN atBeta
                /\ atBeta[k] = Min(clamp_max, Max(clamp_min, old + delta))

-----------------------------------------------------------------------------
\* the active input of a score_modes call as one map token -> weight
\* (ArchetypeTunerDemo: weights.get(tok, 0.0) for the tokens of active_tokens)
ActiveOf(call) ==
    IF engine = "FL" THEN call.active
    ELSE [tok \in call.tokens |-> IF tok \in DOMAIN call.active THEN call.active[tok] ELSE 0]

\* the stored weight of (m, t) in the table before the call, 0 without entry
StoredBefore(m, t) ==
    IF engine = "FL"
    THEN (IF t \in DOMAIN last.pre.fl[m] THEN last.pre.fl[m][t] ELSE 0)
    ELSE (IF <<m, t>> \in DOMAIN last.pre.at THEN last.pre.at[<<m, t>>] ELSE 0)

DeclaredModes == IF engine = "FL" THEN Range(FLModes) ELSE Range(ATModes)

\* sum over the tokens of T of beta[m][t] * a[t]
WeightedSum(m, a, T) == SumOver(T, [t \in T |-> StoredBefore(m, t) * a[t]])

NoEntryAnywhere(t) ==
    IF engine = "FL"
    THEN \A m \in DOMAIN last.pre.fl : t \notin DOMAIN last.pre.fl[m]
    ELSE \A k \in DOMAIN last.pre.at : k[2] # t

(* C9, as stated: score_modes returns one score per declared mode, the     *)
(* score of m being the sum over the tokens of the active map of           *)
(* beta[m][t] * active[t] (0.0 without entry), for every active map.       *)
C9_ScoreIsWeightedSum ==
    last.op = "score_modes" =>
        LET a == ActiveOf(last)
        IN  /\ DOMAIN last.scores = DeclaredModes
            /\ \A m \in DeclaredModes : last.scores[m] = WeightedSum(m, a, DOMAIN a)

(* C9, amended: the same for every active map whose weights are all >= 0; *)
(* and the tokens without entry for any mode can be left out of the sum.   *)
C9_ScoreIsWeightedSumNonNegative ==
    (last.op = "score_modes" /\ \A t \in DOMAIN ActiveOf(last) : ActiveOf(last)[t] >= 0) =>
        LET a == ActiveOf(last)
            known == { t \in DOMAIN a : ~NoEntryAnywhere(t) }
        IN  /\ DOMAIN last.scores = DeclaredModes
            /\ \A m \in DeclaredModes :
                  /\ last.scores[m] = WeightedSum(m, a, DOMAIN a)
                  /\ last.scores[m] = WeightedSum(m, a, known)

\* a score_modes call over a token with an entry and a token without any,
\* both with positive weight, giving a non-zero score
C9_Witness ==
    /\ engine = "AT" /\ last.op = "score_modes"
    /\ last.tokens = {"therapy-drift", "ignored-wants"}
    /\ last.active = ("therapy-drift" :> 5) @@ ("ignored-wants" :> 5)
    /\ NoEntryAnywhere("ignored-wants")
    /\ last.scores["STRICT"] = 25000

(* C10: an active token whose weight is <= 0 contributes nothing:          *)
(* score_modes returns the scores it returns with that token removed from  *)
(* the active input, in both engines.                                      *)
C10_NonPositiveWeightIgnored ==
    last.op = "score_modes" =>
        /\ engine = "FL" =>
              \A t \in DOMAIN last.active :
                  last.active[t] <= 0 =>
                      last.scores =
                          FL_score_modes(last.pre.fl,
                              [x \in DOMAIN last.active \ {t} |-> last.active[x]])
        /\ engine = "AT" =>
              \A t \in last.tokens :
                  (IF t \in DOMAIN last.active THEN last.active[t] ELSE 0) <= 0 =>
                      last.scores =
                          AT_score_modes(last.pre.at, last.tokens \ {t}, last.active)

\* C11: snapshot_beta returns a copy of the whole current table: every
\* (mode, token) entry stored at the moment of the call, entries materialized
\* by apply_feedback for undeclared tokens included, is in the snapshot with
\* its weight, and later calls do not change the snapshot already returned.
\* (snap.of is the table at the moment of the call; snap is kept by every
\* later action, the snapshot being made of new dicts of floats.)
C11_SnapshotIsWholeTable ==
    snap.taken =>
        /\ \A m \in DOMAIN snap.of.fl : \A t \in DOMAIN snap.of.fl[m] :
              /\ m \in DOMAIN snap.fl
              /\ t \in DOMAIN snap.fl[m]
              /\ snap.fl[m][t] = snap.of.fl[m][t]
        /\ \A k \in DOMAIN snap.of.at :
              /\ AT_snapshot_key(k) \in DOMAIN snap.at
              /\ snap.at[AT_snapshot_key(k)] = snap.of.at[k]

\* C12: no core operation can fail: every call of score_modes, select_mode,
\* snapshot_beta and apply_feedback completes without raising, for any token
\* map and any mode argument, a mode outside the declared list included.
C12_NoOperationRaises ==
    last.op \in {"score_modes", "select_mode", "snapshot_beta", "apply_feedback"}
        => last.raised = ""

\* C13: STRICT policy: on the engine that declares a token vocabulary
\* (FeedbackLayerDemo, field invariants), an apply_feedback update naming a
\* token outside the declared vocabulary is skipped: for that pair the table
\* keeps its set of entries and its weight, in every mode.
C13_StrictSkipsUndeclared ==
    (engine = "FL" /\ IsApply) =>
        \A t \in DOMAIN last.active : t \notin Range(FLInvariants) =>
            \A m \in DOMAIN flBeta :
                /\ (t \in DOMAIN flBeta[m]) = (t \in DOMAIN last.pre.fl[m])
                /\ t \in DOMAIN flBeta[m] => flBeta[m][t] = last.pre.fl[m][t]

\* C14: malformed seed key: in the seed loop a key without a "|" writes
\* nothing and does not stop the loop; every key with a separator is written
\* with its literal value under the pair (text before the first "|", text
\* after it), and the table holds no other entry.
C14_MalformedSeedKeySkipped ==
    last.op = "seed" =>
        LET wellFormed == { k \in DOMAIN last.seeds : \E i \in 1..Len(k) : k[i] = "|" }
            PairOf(k) ==
                LET i == CHOOSE n \in 1..Len(k) :
                            k[n] = "|" /\ \A j \in 1..(n - 1) : k[j] # "|"
                IN  << Join(SubSeq(k, 1, i - 1)), Join(SubSeq(k, i + 1, Len(k))) >>
        IN  /\ DOMAIN atBeta = DOMAIN last.pre.at \cup { PairOf(k) : k \in wellFormed }
            /\ \A k \in wellFormed : atBeta[PairOf(k)] = last.seeds[k]
            /\ \A p \in DOMAIN last.pre.at : p \in DOMAIN atBeta

\* a seed map with a key lacking the separator next to a well-formed key:
\* only the well-formed key is in the table, with its literal value
C14_Witness ==
    /\ last.op = "seed"
    /\ last.seeds = (KeyNoSep :> 900) @@ (KeyLenientIgnored :> -5000)
    /\ atBeta = (<<"LENIENT", "ignored-wants">> :> -5000)

\* C15: only apply_feedback mutates the table after construction and
\* seeding: score_modes, select_mode and snapshot_beta leave the set of
\* entries and every stored weight as they were, whatever the input, active
\* tokens without an entry included.
C15_ReadsLeaveTable ==
    last.op \in {"score_modes", "select_mode", "snapshot_beta"} =>
        /\ flBeta = last.pre.fl
        /\ atBeta = last.pre.at

\* score_modes was called with an active token that has no entry in any row
C15_Witness ==
    /\ engine = "FL" /\ last.op = "score_modes"
    /\ "Demo-Other" \in DOMAIN last.active
    /\ \A m \in DOMAIN last.pre.fl : "Demo-Other" \notin DOMAIN last.pre.fl[m]
    /\ \A m \in DOMAIN flBeta : "Demo-Other" \notin DOMAIN flBeta[m]

\* C16: every engine that can be constructed, directly or through the CLI
\* from configuration values, has clamp_min <= clamp_max in every reachable
\* state, and every weight an apply_feedback call has just updated lies in
\* [clamp_min, clamp_max].
C16_ClampBoundsOrdered ==
    /\ clamp_min <= clamp_max
    /\ \A m \in DOMAIN flBeta : \A t \in DOMAIN flBeta[m] :
          FLTargets(m, t) => InRange(flBeta[m][t])
    /\ \A k \in DOMAIN atBeta : ATTargets(k) => InRange(atBeta[k])

\* C17: frame of apply_feedback: a call apply_feedback(mode, engraved, reward)
\* changes only the entries (mode, t) with t in engraved; every other entry
\* keeps exactly the weight it had before the call, a seeded weight outside
\* the clamp range included, and no other entry appears or disappears.
C17_ApplyFrame ==
    IsApply =>
        /\ DOMAIN flBeta = DOMAIN last.pre.fl
        /\ \A m \in DOMAIN flBeta :
              /\ \A t \in DOMAIN last.pre.fl[m] : t \in DOMAIN flBeta[m]
              /\ \A t \in DOMAIN flBeta[m] :
                    ~(m = last.mode /\ t \in DOMAIN last.active) =>
                        /\ t \in DOMAIN last.pre.fl[m]
                        /\ flBeta[m][t] = last.pre.fl[m][t]
        /\ \A k \in DOMAIN last.pre.at : k \in DOMAIN atBeta
        /\ \A k \in DOMAIN atBeta :
              ~(k[1] = last.mode /\ k[2] \in last.tokens) =>
                  /\ k \in DOMAIN last.pre.at
                  /\ atBeta[k] = last.pre.at[k]

\* the positive weight maps over the engraved tokens of the last call
PositiveMapsOf(call) ==
    { w \in ATWeightMaps : DOMAIN w = call.tokens /\ \A t \in DOMAIN w : w[t] > 0 }

\* select_mode(A) on the table before the last call returned the mode of the
\* call, and select_mode(A) on the table after it returns it again
FLSelectionKept ==
    FL_select_mode(last.pre.fl, last.active) = last.mode
        => FL_select_mode(flBeta, last.active) = last.mode
ATSelectionKept ==
    \A w \in PositiveMapsOf(last) :
        AT_select_mode(last.pre.at, last.tokens, w) = last.mode
            => AT_select_mode(atBeta, last.tokens, w) = last.mode

IsPositiveApply ==
    /\ IsApply /\ last.reward > 0 /\ last.raised = ""
    /\ \A t \in DOMAIN last.active : last.active[t] > 0

GuardTherapy == 4 * Cardinality(guard.phrases \cap A_keywords)
GuardAssistant ==
    6 * Cardinality(guard.phrases \cap
            (IF guard.copy = "A" THEN A_markers ELSE ASSISTANT_SELF_REFERENCE_MARKERS))
GuardIgnored == IF guard.user_wants_bullets /\ ~guard.has_list THEN 7 ELSE 0
GuardBypass ==
    \/ guard.copy = "A" /\ "ALLOW_ASSISTANT_FOR_DEMO" \in guard.flags
    \/ guard.copy = "B" /\ "SKIP_SENTINEL_FOR_DEMO" \in guard.flags

\* C19: guard decision precedence, in both copies: with the copy's bypass
\* flag set the decision is ALLOW whatever the scores; otherwise it is
\* BLOCK_AND_RETRY exactly when the therapy or the assistant score is >= 0.8,
\* else SCRUB_AND_WARN exactly when one of the three scores is >= 0.4, else
\* ALLOW; an unmet bullet expectation alone never yields BLOCK_AND_RETRY.
C19_GuardPrecedence ==
    guard.copy \in {"A", "B"} =>
        LET hard == GuardTherapy >= 8 \/ GuardAssistant >= 8
            soft == GuardTherapy >= 4 \/ GuardAssistant >= 4 \/ GuardIgnored >= 4
        IN  /\ GuardBypass => guard.decision = "ALLOW"
            /\ ~GuardBypass =>
                  /\ guard.decision = "BLOCK_AND_RETRY" <=> hard
                  /\ guard.decision = "SCRUB_AND_WARN" <=> (~hard /\ soft)
                  /\ guard.decision = "ALLOW" <=> (~hard /\ ~soft)
            /\ (GuardTherapy = 0 /\ GuardAssistant = 0) => guard.decision # "BLOCK_AND_RETRY"

\* copy B, not bypassed (the flag of copy A is set instead): two therapy
\* keywords and an unmet bullet expectation, hard and soft conditions both
\* hold and the decision is BLOCK_AND_RETRY
C19_Witness ==
    /\ guard.copy = "B" /\ guard.flags = {"ALLOW_ASSISTANT_FOR_DEMO"}
    /\ guard.phrases = {"as your therapist", "inner child"}
    /\ guard.user_wants_bullets /\ ~guard.has_list
    /\ guard.therapy = 8 /\ guard.ignored = 7
    /\ guard.decision = "BLOCK_AND_RETRY"

====
